---------------------------- MODULE Spec2Model ----------------------------
(***************************************************************************)
(* Model of js/script.js: the ThemeManager (persisted tri-state theme with *)
(* a system-preference fallback) and the DynamicNavbarBreakpoint (width    *)
(* measurement deciding the navbar's expanded/collapsed layout class),     *)
(* the two DOMContentLoaded listeners, the two submit handlers of the      *)
(* contact form, and anchor clicks against the mobile menu.                *)
(*                                                                         *)
(* JavaScript runs each handler to completion on one thread, so every      *)
(* handler is one atomic action.  Strings are TLA+ strings; JavaScript's   *)
(* null is the value Null, which is not a member of Strings.               *)
(***************************************************************************)
EXTENDS Integers, FiniteSets, Sequences, TLC

(***************************************************************************)
(* Bounds of the model (not program constants).                            *)
(***************************************************************************)
\* measured widths of brand, nav links and theme control range over 0..MaxWidth
MaxWidth == 1
\* a readable computed gap ranges over 0..MaxGap pixels
MaxGap == 1

\* at most MaxThrowing constructors throw on one page
MaxThrowing == 2

\* at most MaxSubmits submit events in one run
MaxSubmits == 3

\* at most MaxClicks clicks on anchors in one run
MaxClicks == 3

(***************************************************************************)
(* Program constants.                                                      *)
(***************************************************************************)
\* const gapWidth = parseFloat(gapStyle) || 8
DefaultGap == 8
\* const buffer = 5
Buffer == 5

(***************************************************************************)
(* Values.                                                                 *)
(***************************************************************************)
\* JavaScript null: localStorage.getItem of an absent key, a missing attribute
Null == "<null>"

\* own keys of this.themes
ThemeKeys == {"light", "dark", "high-contrast"}

\* this.themes is an object literal, so it inherits Object.prototype: these
\* names are not own keys, yet this.themes[name] is a (truthy) function/object
ObjectPrototypeKeys ==
    {"constructor", "toString", "valueOf", "hasOwnProperty", "__proto__"}

\* strings that reach the ThemeManager: the three variants, the empty string,
\* a stale/renamed variant, and a name found on Object.prototype
Strings == ThemeKeys \cup {"", "blue", "constructor"}

\* what localStorage.getItem('preferred-theme') can return
StorageValues == Strings \cup {Null}

\* window.matchMedia('(prefers-color-scheme: dark)'): reports dark, reports
\* light, or the API does not exist
MediaStates == {"dark", "light", "unavailable"}

\* the data-theme values of the page's .theme-option elements
OptionThemes == ThemeKeys

\* JavaScript truthiness of a string-or-null value
Truthy(s) == s # Null /\ s # ""

VARIABLES
    \* ---- ThemeManager and the DOM it owns ----
    storage,          \* localStorage['preferred-theme'] (Null when absent)
    mediaQuery,       \* the environment's dark/light signal
    themeLoaded,      \* a ThemeManager has been constructed on this page
    currentTheme,     \* ThemeManager.currentTheme
    listening,        \* the matchMedia 'change' listener is registered
    rootAttr,         \* document.documentElement data-bs-theme
    codeHref,         \* href of #highlight-js-theme (Null: no such element)
    heroSrc,          \* src of .hero-svg-icon (Null: no such element)
    ariaLabel,        \* label pushed to #themeDropdown and #current-theme
    iconClass,        \* className of the button's <i>
    activeOptions,    \* data-theme of the options carrying class 'active'
    wroteStorage,     \* the last handler called localStorage.setItem
    themeOp,          \* the last ThemeManager operation and its argument
    prevThemeOp,      \* the operation before it
    userChoice,       \* the variant v of switchTheme(v), while nothing but
                      \* environment notifications has happened since
    notified,         \* "no": storage started empty and neither switchTheme
                      \* nor a notification has run; "yes": notifications
                      \* have, switchTheme has not; "excluded": otherwise
    \* ---- DynamicNavbarBreakpoint and the DOM it measures ----
    absent,           \* the required elements querySelector did not find
    brandWidth,       \* natural offsetWidth of .navbar-brand
    navWidth,         \* natural offsetWidth of .navbar-nav (expanded layout)
    themeCtlWidth,    \* natural offsetWidth of #themeDropdown
    containerWidth,   \* clientWidth of .container
    gapStyle,         \* computed gap of .navbar-collapse
    navbarExpanded,   \* the navbar carries class navbar-expand-lg
    navConstructed,   \* new DynamicNavbarBreakpoint(navbar) has run
    observed,         \* elements given to resizeObserver.observe
    resizePending,    \* a ResizeObserver callback is queued
    timerPending,     \* the 150 ms setTimeout has not fired yet
    navOp,            \* the last navbar-related step
    navRead,          \* navbarNav.offsetWidth as read by the checkBreakpoint
                      \* of the last step (-1: the last step ran no check)
    \* ---- the DOMContentLoaded listeners ----
    pageHas,          \* the looked-up elements the page's markup contains
    throwing,         \* the components whose constructor throws on this page
    initialized,      \* the components whose constructor has completed
    listenersRun,     \* the DOMContentLoaded listeners that have run
    uncaught,         \* the listeners an exception escaped from
    \* ---- the contact form and its two submit handlers ----
    supabaseReady,    \* SupabaseManager.supabase is not null
    btnDisabled,      \* submitButton.disabled
    btnHtml,          \* submitButton.innerHTML: "normal" or "loading"
    customInvalid,    \* some field carries a custom validity message
    values,           \* what the current field values satisfy
    wasValidated,     \* the form carries class was-validated
    successShown,     \* #contact-success-message is displayed
    errorShown,       \* #contact-error-message is displayed
    nSubmits,         \* submit events dispatched so far
    dispatching,      \* the submit event whose second listener has yet to
                      \* run (0: none)
    sub,              \* per submit event: what each handler did with it
    \* ---- anchor links and the mobile menu ----
    scrollPage,       \* what the page has of .navbar and .navbar-collapse
    menu,             \* the mobile menu: "closed", "open" (class show) or
                      \* "hiding" (hide() called, transition running)
    clicks            \* the clicks on anchors whose target exists, in order:
                      \* where, whether the menu was open, scrollIntoView
                      \* calls made, a once-listener still waiting

themeVars == <<storage, mediaQuery, themeLoaded, currentTheme, listening,
               rootAttr, codeHref, heroSrc, ariaLabel, iconClass,
               activeOptions, wroteStorage, themeOp, prevThemeOp,
               userChoice, notified>>

navVars == <<absent, brandWidth, navWidth, themeCtlWidth, containerWidth,
             gapStyle, navbarExpanded, navConstructed, observed,
             resizePending, timerPending, navOp, navRead>>

startVars == <<pageHas, throwing, initialized, listenersRun, uncaught>>

formVars == <<supabaseReady, btnDisabled, btnHtml, customInvalid, values,
              wasValidated, successShown, errorShown, nSubmits, dispatching,
              sub>>

scrollVars == <<scrollPage, menu, clicks>>

vars == <<themeVars, navVars, startVars, formVars, scrollVars>>


(***************************************************************************)
(* ThemeManager: pure parts.                                               *)
(***************************************************************************)
\* `this.themes[x]` used as a condition: truthy for the own keys and for every
\* property the object literal inherits from Object.prototype
ThemesHas(x) == x \in ThemeKeys \cup ObjectPrototypeKeys

\* this.themes[t].label as the template literal renders it
ThemeLabel(t) ==
    CASE t = "light" -> "Light"
      [] t = "dark" -> "Dark"
      [] t = "high-contrast" -> "High Contrast"
      [] OTHER -> "undefined"

\* this.themes[t].icon as the template literal renders it
ThemeIcon(t) ==
    CASE t = "light" -> "bi-sun"
      [] t = "dark" -> "bi-moon"
      [] t = "high-contrast" -> "bi-circle-half"
      [] OTHER -> "undefined"

\* updateHeroSvg's switch
HeroSvgPath(theme) ==
    CASE theme = "dark" -> "/img/undraw_road_to_knowledge_dark.svg"
      [] theme = "high-contrast" -> "/img/undraw_road_to_knowledge_high_contrast.svg"
      [] OTHER -> "/img/undraw_road_to_knowledge_light.svg"

\* updateCodeTheme's choice of stylesheet
CodeThemeHref(theme) ==
    IF theme = "dark" \/ theme = "high-contrast"
    THEN "github-dark.min.css"
    ELSE "github.min.css"

\* variant of MediaTheme with `.matches` forgotten: the MediaQueryList object
\* itself is truthy whenever the API exists
MediaThemeObjectTruthy(mq) == IF mq # "unavailable" THEN "dark" ELSE "light"

\* window.matchMedia?.('(prefers-color-scheme: dark)').matches ? 'dark' : 'light'
\* (the optional chain yields undefined, hence 'light', without the API)
MediaTheme(mq) == IF mq = "dark" THEN "dark" ELSE "light"

\* variant of LoadedTheme that never finds the saved value (wrong storage key)
LoadedThemeWrongKey(savedTheme, mq) == MediaTheme(mq)

\* loadTheme: the value given to this.currentTheme
LoadedTheme(savedTheme, mq) ==
    IF Truthy(savedTheme) /\ ThemesHas(savedTheme)
    THEN savedTheme
    ELSE MediaTheme(mq)

\* variant of NoPreference with the storage test left out of the listener
NoPreferenceUnchecked(saved) == TRUE

\* the change listener's test `!localStorage.getItem('preferred-theme')`
NoPreference(saved) == ~Truthy(saved)

\* variant of SystemTheme with the branches of the conditional swapped
SystemThemeSwapped(matches) == IF matches THEN "light" ELSE "dark"

\* the change listener's argument `e.matches ? 'dark' : 'light'`
SystemTheme(matches) == IF matches THEN "dark" ELSE "light"

\* markup values of the static HTML, before any script has run
HtmlInitial == "<html>"

(***************************************************************************)
(* ThemeManager: state changes.                                            *)
(***************************************************************************)
\* applyTheme(theme): root attribute, code stylesheet, hero illustration
\* (the last two return early when their element does not exist)
ApplyTheme(theme) ==
    /\ rootAttr' = theme
    /\ codeHref' = IF codeHref = Null THEN Null ELSE CodeThemeHref(theme)
    /\ heroSrc' = IF heroSrc = Null THEN Null ELSE HeroSvgPath(theme)

\* variant of UpdateThemeUI that marks the matching option with
\* classList.add('active') and never clears the others
UpdateThemeUIAddOnly(cur, beforeLabel, beforeIcon) ==
    /\ ariaLabel' = IF ThemesHas(cur) THEN ThemeLabel(cur) ELSE beforeLabel
    /\ iconClass' = IF ThemesHas(cur) THEN ThemeIcon(cur) ELSE beforeIcon
    /\ activeOptions' = activeOptions \cup (OptionThemes \cap {cur})

\* variant of UpdateThemeUI whose classList.toggle('active') lacks the force
\* argument and is applied to the matching option only
UpdateThemeUIToggling(cur, beforeLabel, beforeIcon) ==
    /\ ariaLabel' = IF ThemesHas(cur) THEN ThemeLabel(cur) ELSE beforeLabel
    /\ iconClass' = IF ThemesHas(cur) THEN ThemeIcon(cur) ELSE beforeIcon
    /\ activeOptions' = (activeOptions \ {cur})
                            \cup ((OptionThemes \cap {cur}) \ activeOptions)

\* updateThemeUI() with this.currentTheme = cur; before is the button's
\* label/icon when the call starts
UpdateThemeUI(cur, beforeLabel, beforeIcon) ==
    /\ ariaLabel' = IF ThemesHas(cur) THEN ThemeLabel(cur) ELSE beforeLabel
    /\ iconClass' = IF ThemesHas(cur) THEN ThemeIcon(cur) ELSE beforeIcon
    /\ activeOptions' = {o \in OptionThemes : o = cur}

\* a switchTheme that does not write localStorage
DoSwitchThemeNotPersisting(theme) ==
    IF ~ThemesHas(theme)
    THEN /\ UNCHANGED <<currentTheme, rootAttr, codeHref, heroSrc, storage,
                        ariaLabel, iconClass, activeOptions>>
         /\ wroteStorage' = FALSE
    ELSE /\ currentTheme' = theme
         /\ ApplyTheme(theme)
         /\ UNCHANGED storage
         /\ wroteStorage' = FALSE
         /\ UpdateThemeUI(theme, ariaLabel, iconClass)

\* the body of switchTheme(theme), without the bookkeeping of the caller
DoSwitchTheme(theme) ==
    IF ~ThemesHas(theme)
    THEN /\ UNCHANGED <<currentTheme, rootAttr, codeHref, heroSrc, storage,
                        ariaLabel, iconClass, activeOptions>>
         /\ wroteStorage' = FALSE
    ELSE /\ currentTheme' = theme
         /\ ApplyTheme(theme)
         /\ storage' = theme
         /\ wroteStorage' = TRUE
         /\ UpdateThemeUI(theme, ariaLabel, iconClass)

\* DOMContentLoaded on a (re)loaded page: the DOM is the static markup again,
\* localStorage is kept, and new ThemeManager() runs its constructor and init():
\* loadTheme, setupEventListeners, updateThemeUI, listenForSystemThemeChanges.
\* mq is the environment signal at load time; whether the API exists is a
\* property of the browser and does not change.
PageLoad(mq) ==
    /\ (mq = "unavailable") <=> (mediaQuery = "unavailable")
    /\ mediaQuery' = mq
    /\ themeLoaded' = TRUE
    /\ currentTheme' = LoadedTheme(storage, mq)
    /\ ApplyTheme(LoadedTheme(storage, mq))
    /\ UpdateThemeUI(LoadedTheme(storage, mq), HtmlInitial, HtmlInitial)
    /\ listening' = (mq # "unavailable")
    /\ wroteStorage' = FALSE
    /\ themeOp' = [name |-> "load", arg |-> mq]
    /\ prevThemeOp' = themeOp
    /\ userChoice' = Null
    /\ UNCHANGED notified
    /\ UNCHANGED storage
    /\ UNCHANGED <<navVars, startVars, formVars, scrollVars>>

\* a switchTheme that also drops the navbar's layout class
SwitchThemeCollapsingNavbar(theme) ==
    /\ themeLoaded
    /\ DoSwitchTheme(theme)
    /\ themeOp' = [name |-> "switchTheme", arg |-> theme]
    /\ prevThemeOp' = themeOp
    /\ userChoice' = IF theme \in ThemeKeys THEN theme ELSE Null
    /\ notified' = "excluded"
    /\ navbarExpanded' = FALSE
    /\ UNCHANGED <<mediaQuery, themeLoaded, listening>>
    /\ UNCHANGED <<absent, brandWidth, navWidth, themeCtlWidth, containerWidth,
                   gapStyle, navConstructed, observed, resizePending,
                   timerPending, navOp, navRead>>
    /\ UNCHANGED <<startVars, formVars, scrollVars>>

\* switchTheme(theme), called by an option's click handler with the option's
\* data-theme, or directly with any string
SwitchTheme(theme) ==
    /\ themeLoaded
    /\ DoSwitchTheme(theme)
    /\ themeOp' = [name |-> "switchTheme", arg |-> theme]
    /\ prevThemeOp' = themeOp
    /\ userChoice' = IF theme \in ThemeKeys THEN theme ELSE Null
    /\ notified' = "excluded"
    /\ UNCHANGED <<mediaQuery, themeLoaded, listening>>
    /\ UNCHANGED <<navVars, startVars, formVars, scrollVars>>

\* the 'change' listener of the media query, with e.matches = matches
SystemThemeChange(matches) ==
    /\ themeLoaded
    /\ listening
    /\ mediaQuery' = IF matches THEN "dark" ELSE "light"
    /\ IF NoPreference(storage)
       THEN DoSwitchTheme(SystemTheme(matches))
       ELSE /\ UNCHANGED <<currentTheme, rootAttr, codeHref, heroSrc, storage,
                           ariaLabel, iconClass, activeOptions>>
            /\ wroteStorage' = FALSE
    /\ themeOp' = [name |-> "systemChange",
                    arg |-> IF matches THEN "dark" ELSE "light"]
    /\ prevThemeOp' = themeOp
    /\ UNCHANGED <<themeLoaded, listening, userChoice>>
    /\ notified' = IF notified = "no" THEN "yes" ELSE notified
    /\ UNCHANGED <<navVars, startVars, formVars, scrollVars>>

\* applyTheme(this.currentTheme) followed by updateThemeUI(), as init() and
\* switchTheme() run them, on whatever the DOM holds at that moment
ApplyCurrent ==
    /\ themeLoaded
    /\ ApplyTheme(currentTheme)
    /\ UpdateThemeUI(currentTheme, ariaLabel, iconClass)
    /\ wroteStorage' = FALSE
    /\ themeOp' = [name |-> "applyCurrent", arg |-> currentTheme]
    /\ prevThemeOp' = themeOp
    /\ UNCHANGED <<storage, mediaQuery, themeLoaded, currentTheme, listening,
                   userChoice, notified>>
    /\ UNCHANGED <<navVars, startVars, formVars, scrollVars>>

\* the page before DOMContentLoaded: any stored value, any environment, the
\* optional elements present or not
ThemeInit ==
    /\ storage \in StorageValues
    /\ mediaQuery \in MediaStates
    /\ themeLoaded = FALSE
    /\ currentTheme = "light"
    /\ listening = FALSE
    /\ rootAttr = Null
    /\ codeHref \in {Null, HtmlInitial}
    /\ heroSrc \in {Null, HtmlInitial}
    /\ ariaLabel = HtmlInitial
    /\ iconClass = HtmlInitial
    /\ activeOptions = {}
    /\ wroteStorage = FALSE
    /\ themeOp = [name |-> "none", arg |-> ""]
    /\ prevThemeOp = [name |-> "none", arg |-> ""]
    /\ userChoice = Null
    /\ notified = IF storage = Null THEN "no" ELSE "excluded"

ThemeNext ==
    \/ \E mq \in MediaStates : PageLoad(mq)
    \/ \E theme \in Strings : SwitchTheme(theme)
    \/ \E matches \in BOOLEAN : SystemThemeChange(matches)

(***************************************************************************)
(* DynamicNavbarBreakpoint: the DOM it measures.                           *)
(***************************************************************************)
\* the elements the constructor looks up inside the navbar
Required == {"container", "brand", "navbarNav", "themeSelector"}

\* widths the layout can give the three measured children: small values, and
\* the worked example's 100 / 300 / 150
BrandWidths == (0 .. MaxWidth) \cup {100}
NavWidths == (0 .. MaxWidth) \cup {300}
ThemeCtlWidths == (0 .. MaxWidth) \cup {150}

\* inner widths of the container: every value around the thresholds of the
\* small widths, and the worked example's 560 / 600
ContainerWidths ==
    (0 .. 3 * MaxWidth + 2 * DefaultGap + Buffer + 1) \cup {560, 600}

\* getComputedStyle(navbarCollapse).gap: a length in pixels, the keyword
\* 'normal', or no .navbar-collapse element to read it from
GapStyles ==
    {[kind |-> "px", px |-> g] : g \in (0 .. MaxGap) \cup {DefaultGap}}
        \cup {[kind |-> "normal", px |-> 0], [kind |-> "no-element", px |-> 0]}

\* el.offsetWidth under a given layout class: Bootstrap hides the nav links of a
\* collapsed navbar, so .navbar-nav has no width unless the class is present
OffsetWidth(el, expandedClass) ==
    CASE el = "brand" -> brandWidth
      [] el = "navbarNav" -> IF expandedClass THEN navWidth ELSE 0
      [] el = "themeSelector" -> themeCtlWidth

\* gapStyle: navbarCollapse ? getComputedStyle(navbarCollapse).gap : '0px'
GapStyleRead(style) ==
    IF style.kind = "no-element" THEN [kind |-> "px", px |-> 0] ELSE style

\* parseFloat(gapStyle) || 8: NaN ('normal') and 0 are falsy
GapWidth(style) ==
    IF GapStyleRead(style).kind = "px" /\ GapStyleRead(style).px # 0
    THEN GapStyleRead(style).px
    ELSE DefaultGap

\* requiredWidth
RequiredWidth(brandW, navW, themeW, gapW) == brandW + navW + themeW + (2 * gapW)

\* variant of TooNarrow that collapses already when the widths fit exactly
TooNarrowAtEquality(requiredWidth, availableWidth) ==
    requiredWidth + Buffer >= availableWidth

\* the branch that removes the class: requiredWidth + buffer > availableWidth
TooNarrow(requiredWidth, availableWidth) == requiredWidth + Buffer > availableWidth

\* variant of ElementsMissing that forgets the theme control
ElementsMissingThemeForgotten(notFound) ==
    \/ "container" \in notFound
    \/ "brand" \in notFound
    \/ "navbarNav" \in notFound

\* init()'s guard: any of the four lookups came back null
ElementsMissing(notFound) ==
    \/ "container" \in notFound
    \/ "brand" \in notFound
    \/ "navbarNav" \in notFound
    \/ "themeSelector" \in notFound

\* variant of ClassAfterAdd with the opening classList.add left out
ClassAddForgotten(before) == before

\* this.navbar.classList.add('navbar-expand-lg') at the top of checkBreakpoint:
\* the class is present afterwards, whatever it was before
ClassAfterAdd(before) == TRUE

\* variant of CheckBreakpointResult that tests the fit without ever adding the
\* class: a collapsed navbar stays collapsed
CheckBreakpointNeverReExpands ==
    /\ navbarExpanded
    /\ brandWidth + navWidth + themeCtlWidth + 2 * GapWidth(gapStyle) + Buffer
          <= containerWidth

\* the class after checkBreakpoint(): it is added first, the widths are read
\* with it present, and it is removed when they do not fit
CheckBreakpointResult ==
    LET forced == ClassAfterAdd(navbarExpanded)
        brandW == OffsetWidth("brand", forced)
        navbarNavW == OffsetWidth("navbarNav", forced)
        themeSelectorW == OffsetWidth("themeSelector", forced)
        requiredWidth == RequiredWidth(brandW, navbarNavW, themeSelectorW,
                                       GapWidth(gapStyle))
    IN  ~TooNarrow(requiredWidth, containerWidth)

\* a class change shows or hides the nav links, which resizes the observed
\* .navbar-nav whenever it has a width to lose or gain
ToggleResizes(before, after) == before # after /\ navWidth > 0

(***************************************************************************)
(* DynamicNavbarBreakpoint: state changes.                                 *)
(***************************************************************************)
\* new DynamicNavbarBreakpoint(navbar): constructor and init()
NavConstruct ==
    /\ ~navConstructed
    /\ navConstructed' = TRUE
    /\ IF ElementsMissing(absent)
       THEN UNCHANGED <<observed, resizePending, timerPending>>
       ELSE /\ observed' = {"container", "navbarNav"}
            /\ resizePending' = TRUE   \* observe() reports the first size
            /\ timerPending' = TRUE
    /\ navOp' = "construct"
    /\ navRead' = -1
    /\ UNCHANGED <<absent, brandWidth, navWidth, themeCtlWidth,
                   containerWidth, gapStyle, navbarExpanded>>
    /\ UNCHANGED <<themeVars, startVars, formVars, scrollVars>>

\* the browser lays the page out again: one measured quantity changes, and a
\* ResizeObserver callback is queued when the element is observed
DomResize(el, w) ==
    /\ el \notin absent
    /\ CASE el = "brand" ->
              /\ w \in BrandWidths /\ w # brandWidth /\ brandWidth' = w
              /\ UNCHANGED <<navWidth, themeCtlWidth, containerWidth>>
         [] el = "navbarNav" ->
              /\ w \in NavWidths /\ w # navWidth /\ navWidth' = w
              /\ UNCHANGED <<brandWidth, themeCtlWidth, containerWidth>>
         [] el = "themeSelector" ->
              /\ w \in ThemeCtlWidths /\ w # themeCtlWidth /\ themeCtlWidth' = w
              /\ UNCHANGED <<brandWidth, navWidth, containerWidth>>
         [] el = "container" ->
              /\ w \in ContainerWidths /\ w # containerWidth /\ containerWidth' = w
              /\ UNCHANGED <<brandWidth, navWidth, themeCtlWidth>>
    /\ resizePending' = (resizePending \/ (el \in observed /\
                            (el = "navbarNav" => navbarExpanded)))
    /\ navOp' = "domResize"
    /\ navRead' = -1
    /\ UNCHANGED <<absent, gapStyle, navbarExpanded, navConstructed, observed,
                   timerPending>>
    /\ UNCHANGED <<themeVars, startVars, formVars, scrollVars>>

\* the stylesheet or the markup changes the gap of .navbar-collapse
GapChange(style) ==
    /\ style \in GapStyles
    /\ style # gapStyle
    /\ (style.kind = "no-element") <=> (gapStyle.kind = "no-element")
    /\ gapStyle' = style
    /\ navOp' = "domResize"
    /\ navRead' = -1
    /\ UNCHANGED <<absent, brandWidth, navWidth, themeCtlWidth, containerWidth,
                   navbarExpanded, navConstructed, observed, resizePending,
                   timerPending>>
    /\ UNCHANGED <<themeVars, startVars, formVars, scrollVars>>

\* the ResizeObserver callback: () => this.checkBreakpoint()
ResizeCallback ==
    /\ resizePending
    /\ navbarExpanded' = CheckBreakpointResult
    /\ resizePending' = ToggleResizes(navbarExpanded, CheckBreakpointResult)
    /\ navOp' = "resizeCallback"
    /\ navRead' = OffsetWidth("navbarNav", ClassAfterAdd(navbarExpanded))
    /\ UNCHANGED <<absent, brandWidth, navWidth, themeCtlWidth, containerWidth,
                   gapStyle, navConstructed, observed, timerPending>>
    /\ UNCHANGED <<themeVars, startVars, formVars, scrollVars>>

\* setTimeout(() => this.checkBreakpoint(), 150) fires
InitialCheck ==
    /\ timerPending
    /\ timerPending' = FALSE
    /\ navbarExpanded' = CheckBreakpointResult
    /\ resizePending' =
           (resizePending \/ ToggleResizes(navbarExpanded, CheckBreakpointResult))
    /\ navOp' = "timer"
    /\ navRead' = OffsetWidth("navbarNav", ClassAfterAdd(navbarExpanded))
    /\ UNCHANGED <<absent, brandWidth, navWidth, themeCtlWidth, containerWidth,
                   gapStyle, navConstructed, observed>>
    /\ UNCHANGED <<themeVars, startVars, formVars, scrollVars>>

\* the page before DOMContentLoaded: any subset of the required elements may
\* be missing from the markup (a missing element has no width)
NavInit ==
    /\ absent \in SUBSET Required
    /\ brandWidth \in IF "brand" \in absent THEN {0} ELSE BrandWidths
    /\ navWidth \in IF "navbarNav" \in absent THEN {0} ELSE NavWidths
    /\ themeCtlWidth \in IF "themeSelector" \in absent THEN {0} ELSE ThemeCtlWidths
    /\ containerWidth \in IF "container" \in absent THEN {0} ELSE ContainerWidths
    /\ gapStyle \in GapStyles
    /\ navbarExpanded \in BOOLEAN
    /\ navConstructed = FALSE
    /\ observed = {}
    /\ resizePending = FALSE
    /\ timerPending = FALSE
    /\ navOp = "none"
    /\ navRead = -1

NavNext ==
    \/ NavConstruct
    \/ \E el \in Required : \E w \in ContainerWidths \cup BrandWidths
                                     \cup NavWidths \cup ThemeCtlWidths :
          DomResize(el, w)
    \/ \E style \in GapStyles : GapChange(style)
    \/ ResizeCallback
    \/ InitialCheck

(***************************************************************************)
(* The two DOMContentLoaded listeners.                                     *)
(***************************************************************************)
\* the elements the listeners look up before constructing a component
PageElements ==
    {"themeDropdown", "navbar", "scrollToTopBtn", "contactForm", "phone"}

\* the main listener, in source order: the component constructed, the element
\* whose presence guards it ("none": unguarded) and the try block it sits in
MainSteps ==
    << [comp |-> "ThemeManager",            el |-> "themeDropdown",  try |-> 1],
       [comp |-> "MobileMenuManager",       el |-> "navbar",         try |-> 2],
       [comp |-> "NavbarHeightUpdater",     el |-> "navbar",         try |-> 3],
       [comp |-> "DynamicNavbarBreakpoint", el |-> "navbar",         try |-> 4],
       [comp |-> "ScrollToTopButton",       el |-> "scrollToTopBtn", try |-> 5],
       [comp |-> "SmoothScrollWithOffset",  el |-> "none",           try |-> 6],
       [comp |-> "CodeBlockManager",        el |-> "none",           try |-> 7],
       [comp |-> "TooltipManager",          el |-> "none",           try |-> 8],
       [comp |-> "SupabaseManager",         el |-> "contactForm",    try |-> 9],
       [comp |-> "ContactFormHandler",      el |-> "contactForm",    try |-> 9],
       [comp |-> "PhoneInputManager",       el |-> "phone",          try |-> 10] >>

MainComponents == {MainSteps[i].comp : i \in 1..Len(MainSteps)}

\* the components a constructor is handed: new ContactFormHandler(contactForm,
\* supabaseManager)
Needs(comp) ==
    IF comp = "ContactFormHandler" THEN {"SupabaseManager"} ELSE {}

\* a listener that forgot the try/catch around the breakpoint engine
CaughtExceptBreakpoint(comp) == comp # "DynamicNavbarBreakpoint"

\* every `new X(...)` of the main listener sits inside a try { } catch (e)
Caught(comp) == TRUE

\* where the main listener continues after the catch of step i's try block
AfterTry(i) ==
    LET later == {j \in (i+1)..Len(MainSteps) :
                      MainSteps[j].try # MainSteps[i].try}
    IN IF later = {} THEN Len(MainSteps) + 1
       ELSE CHOOSE j \in later : \A k \in later : j <= k

\* the main listener from step i on, `done` being what it has constructed
RECURSIVE RunMain(_, _)
RunMain(i, done) ==
    IF i > Len(MainSteps) THEN [done |-> done, escaped |-> FALSE]
    ELSE LET st == MainSteps[i] IN
         IF st.el # "none" /\ st.el \notin pageHas THEN RunMain(i + 1, done)
         ELSE IF st.comp \in throwing
              THEN IF Caught(st.comp) THEN RunMain(AfterTry(i), done)
                   ELSE [done |-> done, escaped |-> TRUE]
              ELSE RunMain(i + 1, done \cup {st.comp})

\* the first listener registered for DOMContentLoaded
MainListener ==
    /\ "main" \notin listenersRun
    /\ LET r == RunMain(1, {}) IN
       /\ initialized' = initialized \cup r.done
       /\ uncaught' = IF r.escaped THEN uncaught \cup {"main"} ELSE uncaught
    /\ listenersRun' = listenersRun \cup {"main"}
    /\ UNCHANGED <<pageHas, throwing>>
    /\ UNCHANGED <<themeVars, navVars, formVars, scrollVars>>

\* the second listener: form.querySelector(...) on a missing form is a
\* TypeError nothing catches; otherwise it registers the validating handler
ContactListener ==
    /\ "main" \in listenersRun
    /\ "contact" \notin listenersRun
    /\ IF "contactForm" \in pageHas
       THEN /\ initialized' = initialized \cup {"ContactValidation"}
            /\ UNCHANGED uncaught
       ELSE /\ uncaught' = uncaught \cup {"contact"}
            /\ UNCHANGED initialized
    /\ listenersRun' = listenersRun \cup {"contact"}
    /\ UNCHANGED <<pageHas, throwing>>
    /\ UNCHANGED <<themeVars, navVars, formVars, scrollVars>>

\* any page, any failing constructors (at most MaxThrowing of them)
StartInit ==
    /\ pageHas \in SUBSET PageElements
    /\ throwing \in {t \in SUBSET MainComponents : Cardinality(t) <= MaxThrowing}
    /\ initialized = {}
    /\ listenersRun = {}
    /\ uncaught = {}

StartNext == MainListener \/ ContactListener

(***************************************************************************)
(* The contact form: ContactFormHandler's submit handler (A, registered    *)
(* first) and the second listener's submit handler (B) on the same form.   *)
(***************************************************************************)
\* what the field values of a submit event satisfy: the markup's built-in
\* constraints (html) and the rules handler B checks by hand (custom)
FieldValues == [html : BOOLEAN, custom : BOOLEAN]

\* the fields after form.reset()
EmptyValues == [html |-> FALSE, custom |-> FALSE]

\* submitButton.innerHTML: the markup's content, the two loading contents and
\* the content handler B writes back
LoadingHtml == {"loadingA", "loadingB"}

\* what the remote call of handler A can come back with
Outcomes(rpc) ==
    IF rpc THEN {"success", "error", "thrown"} ELSE {"noclient"}

\* form.checkValidity(): the built-in constraints hold and no field carries a
\* custom validity message
CheckValidity(vals, flagged) == vals.html /\ ~flagged

\* the alert handler A raises for an outcome
AlertFor(outcome) ==
    CASE outcome = "success" -> "success"
      [] outcome \in {"error", "noclient"} -> "error"
      [] outcome = "thrown" -> "unexpected"

\* a handler A that restores the button at the end of the try block only
ButtonAfterANoFinally(outcome, orig) ==
    IF outcome = "thrown"
    THEN [disabled |-> TRUE, html |-> "loadingA"]
    ELSE [disabled |-> FALSE, html |-> orig]

\* handler A's finally block: enabled, content as captured before the call
ButtonAfterA(outcome, orig) == [disabled |-> FALSE, html |-> orig]

\* the submit events whose 1.5 s timer of handler B is running
TimersOfB == {i \in 1..nSubmits : sub[i].b = "pending"}

\* a submit event reaches handler A; the user can only submit while the
\* button is enabled, with whatever the fields hold then
SubmitA(v) ==
    /\ ~btnDisabled
    /\ dispatching = 0
    /\ nSubmits < MaxSubmits
    /\ values' = v
    /\ wasValidated' = TRUE
    /\ IF CheckValidity(v, customInvalid)
       THEN /\ btnDisabled' = TRUE
            /\ btnHtml' = "loadingA"
            /\ sub' = Append(sub, [a |-> "pending", b |-> "new",
                                   orig |-> btnHtml, rpc |-> supabaseReady,
                                   alert |-> "none"])
       ELSE /\ UNCHANGED <<btnDisabled, btnHtml>>
            /\ sub' = Append(sub, [a |-> "skipped", b |-> "new",
                                   orig |-> btnHtml, rpc |-> FALSE,
                                   alert |-> "none"])
    /\ nSubmits' = nSubmits + 1
    /\ dispatching' = nSubmits + 1
    /\ UNCHANGED <<supabaseReady, customInvalid, successShown, errorShown>>
    /\ UNCHANGED <<themeVars, navVars, startVars, scrollVars>>

\* the same submit event reaches handler B
SubmitB ==
    /\ dispatching # 0
    /\ customInvalid' = ~values.custom
    /\ wasValidated' = TRUE
    /\ IF CheckValidity(values, ~values.custom)
       THEN /\ btnDisabled' = TRUE
            /\ btnHtml' = "loadingB"
            /\ successShown' = FALSE
            /\ errorShown' = FALSE
            /\ sub' = [sub EXCEPT ![dispatching].b = "pending"]
       ELSE /\ UNCHANGED <<btnDisabled, btnHtml, successShown, errorShown>>
            /\ sub' = [sub EXCEPT ![dispatching].b = "skipped"]
    /\ dispatching' = 0
    /\ UNCHANGED <<supabaseReady, values, nSubmits>>
    /\ UNCHANGED <<themeVars, navVars, startVars, scrollVars>>

\* handler A resumes after its await.  A call that never reached the network
\* (no client, a synchronous throw) can resume between the two listeners of
\* its own submit event; a network reply arrives as a task of its own
CompleteA(i, outcome) ==
    /\ i \in 1..nSubmits
    /\ sub[i].a = "pending"
    /\ outcome \in Outcomes(sub[i].rpc)
    /\ \/ dispatching = 0
       \/ dispatching = i /\ outcome \in {"noclient", "thrown"}
    /\ IF outcome = "success"
       THEN values' = EmptyValues /\ wasValidated' = FALSE
       ELSE UNCHANGED <<values, wasValidated>>
    /\ btnDisabled' = ButtonAfterA(outcome, sub[i].orig).disabled
    /\ btnHtml' = ButtonAfterA(outcome, sub[i].orig).html
    /\ sub' = [sub EXCEPT ![i].a = outcome, ![i].alert = AlertFor(outcome)]
    /\ UNCHANGED <<supabaseReady, customInvalid, successShown, errorShown,
                   nSubmits, dispatching>>
    /\ UNCHANGED <<themeVars, navVars, startVars, scrollVars>>

\* the 1.5 s timer of handler B fires (timers of equal delay fire in order);
\* the mock call always resolves
CompleteB(i) ==
    /\ i \in TimersOfB
    /\ \A j \in TimersOfB : i <= j
    /\ dispatching = 0
    /\ successShown' = TRUE
    /\ values' = EmptyValues
    /\ wasValidated' = FALSE
    /\ btnDisabled' = FALSE
    /\ btnHtml' = "hardcoded"
    /\ sub' = [sub EXCEPT ![i].b = "done"]
    /\ UNCHANGED <<supabaseReady, customInvalid, errorShown, nSubmits,
                   dispatching>>
    /\ UNCHANGED <<themeVars, navVars, startVars, scrollVars>>

\* both handlers attached, the form as the markup has it
FormInit ==
    /\ supabaseReady \in BOOLEAN
    /\ btnDisabled = FALSE
    /\ btnHtml = "markup"
    /\ customInvalid = FALSE
    /\ values = EmptyValues
    /\ wasValidated = FALSE
    /\ successShown = FALSE
    /\ errorShown = FALSE
    /\ nSubmits = 0
    /\ dispatching = 0
    /\ sub = <<>>

FormNext ==
    \/ \E v \in FieldValues : SubmitA(v)
    \/ SubmitB
    \/ \E i \in 1..MaxSubmits :
          \E outcome \in {"success", "error", "thrown", "noclient"} :
             CompleteA(i, outcome)
    \/ \E i \in 1..MaxSubmits : CompleteB(i)

(***************************************************************************)
(* SmoothScrollWithOffset and MobileMenuManager: clicks on anchors.        *)
(***************************************************************************)
\* what document.querySelector('.navbar') and, inside it, '.navbar-collapse'
\* find on the page
ScrollPages == {"full", "no-collapse", "no-navbar"}

\* where a clicked anchor sits: a .nav-link or .dropdown-item inside the
\* collapse that is itself the click target, or any other anchor of the page
\* (the brand, a link in the content, a link whose icon or label was hit)
AnchorPlaces == {"menuLink", "elsewhere"}

\* navbarCollapse && navbarCollapse.classList.contains('show')
IsMobileMenuOpen == scrollPage = "full" /\ menu = "open"

\* a click on a[href="#id"], id other than home, the target on the page:
\* handleAnchorClick on the anchor, then MobileMenuManager's handler when the
\* click bubbles through the collapse
ClickAnchor(place) ==
    /\ Len(clicks) < MaxClicks
    /\ place = "menuLink" => scrollPage = "full"
    /\ clicks' = Append(clicks,
          [place |-> place,
           open |-> IsMobileMenuOpen,
           \* this.navbar.querySelector on a null navbar: TypeError, the
           \* handler ends after preventDefault
           scrolled |-> IF scrollPage = "no-navbar" \/ IsMobileMenuOpen
                        THEN 0 ELSE 1,
           waiting |-> IsMobileMenuOpen])
    /\ menu' = IF place = "menuLink" /\ menu = "open" THEN "hiding" ELSE menu
    /\ UNCHANGED scrollPage
    /\ UNCHANGED <<themeVars, navVars, startVars, formVars>>

\* the user taps the navbar toggler
ToggleMenu ==
    /\ scrollPage = "full"
    /\ menu \in {"closed", "open"}
    /\ menu' = IF menu = "closed" THEN "open" ELSE "hiding"
    /\ UNCHANGED <<scrollPage, clicks>>
    /\ UNCHANGED <<themeVars, navVars, startVars, formVars>>

\* the hide transition ends: hidden.bs.collapse runs every waiting
\* once-listener
MenuHidden ==
    /\ menu = "hiding"
    /\ menu' = "closed"
    /\ clicks' = [i \in 1..Len(clicks) |->
                    IF clicks[i].waiting
                    THEN [clicks[i] EXCEPT !.scrolled = @ + 1,
                                           !.waiting = FALSE]
                    ELSE clicks[i]]
    /\ UNCHANGED scrollPage
    /\ UNCHANGED <<themeVars, navVars, startVars, formVars>>

ScrollInit ==
    /\ scrollPage \in ScrollPages
    /\ menu = "closed"
    /\ clicks = <<>>

ScrollNext ==
    \/ \E place \in AnchorPlaces : ClickAnchor(place)
    \/ ToggleMenu
    \/ MenuHidden

(***************************************************************************)
(* Specifications.                                                         *)
(***************************************************************************)
\* a page whose navbar is complete and at rest, for runs about the theme
NavAtRest ==
    /\ absent = {}
    /\ brandWidth = 0 /\ navWidth = 0 /\ themeCtlWidth = 0 /\ containerWidth = 0
    /\ gapStyle = [kind |-> "normal", px |-> 0]
    /\ navbarExpanded = TRUE
    /\ navConstructed = FALSE
    /\ observed = {}
    /\ resizePending = FALSE
    /\ timerPending = FALSE
    /\ navOp = "none"
    /\ navRead = -1

\* a page without stored preference or optional elements, for runs about the navbar
ThemeAtRest ==
    /\ ThemeInit
    /\ storage = Null
    /\ mediaQuery = "light"
    /\ codeHref = Null
    /\ heroSrc = Null

\* a constructed ThemeManager over a DOM in any state (other scripts and the
\* markup may have written every attribute the applier writes)
ApplyInit ==
    /\ storage = Null
    /\ mediaQuery = "light"
    /\ themeLoaded = TRUE
    /\ currentTheme \in ThemeKeys \cup {"constructor"}
    /\ listening = TRUE
    /\ rootAttr \in ThemeKeys \cup {Null}
    /\ codeHref \in {Null, HtmlInitial, CodeThemeHref("light"), CodeThemeHref("dark")}
    /\ heroSrc \in {Null, HtmlInitial, HeroSvgPath("dark")}
    /\ ariaLabel \in {HtmlInitial, ThemeLabel("light"), ThemeLabel("dark")}
    /\ iconClass \in {HtmlInitial, ThemeIcon("high-contrast")}
    /\ activeOptions \in SUBSET OptionThemes
    /\ wroteStorage = FALSE
    /\ themeOp = [name |-> "none", arg |-> ""]
    /\ prevThemeOp = [name |-> "none", arg |-> ""]
    /\ userChoice = Null
    /\ notified = "excluded"

\* the listeners have not run
StartAtRest ==
    /\ pageHas = {}
    /\ throwing = {}
    /\ initialized = {}
    /\ listenersRun = {}
    /\ uncaught = {}

\* the contact form as the markup has it, nothing submitted
FormAtRest ==
    /\ supabaseReady = FALSE
    /\ btnDisabled = FALSE
    /\ btnHtml = "markup"
    /\ customInvalid = FALSE
    /\ values = [html |-> FALSE, custom |-> FALSE]
    /\ wasValidated = FALSE
    /\ successShown = FALSE
    /\ errorShown = FALSE
    /\ nSubmits = 0
    /\ dispatching = 0
    /\ sub = <<>>

\* no anchor clicked, the menu closed
ScrollAtRest ==
    /\ scrollPage = "full"
    /\ menu = "closed"
    /\ clicks = <<>>

\* the theme component alone
ThemeOnlyInit ==
    ThemeInit /\ NavAtRest /\ StartAtRest /\ FormAtRest /\ ScrollAtRest

ThemeSpec == ThemeOnlyInit /\ [][ThemeNext]_vars

\* the breakpoint component alone
NavOnlyInit ==
    NavInit /\ ThemeAtRest /\ StartAtRest /\ FormAtRest /\ ScrollAtRest

NavSpec == NavOnlyInit /\ [][NavNext]_vars

\* both components on one page: the navbar of the worked example (brand 100,
\* links 300, theme control 150, gap 8px) in a container that is resized
\* between 560 and 600, under a ThemeManager with its optional elements
PageWidths == {560, 600}

BothInit ==
    /\ ThemeInit
    /\ storage \in {Null, "dark"}
    /\ codeHref = HtmlInitial
    /\ heroSrc = HtmlInitial
    /\ NavInit
    /\ absent = {}
    /\ brandWidth = 100 /\ navWidth = 300 /\ themeCtlWidth = 150
    /\ containerWidth \in PageWidths
    /\ gapStyle = [kind |-> "px", px |-> DefaultGap]
    /\ StartAtRest /\ FormAtRest /\ ScrollAtRest

\* DOMContentLoaded fires once per page
FirstPageLoad(mq) ==
    /\ ~themeLoaded
    /\ PageLoad(mq)

\* the callbacks of both components in any order
BothNext ==
    \/ \E mq \in MediaStates : FirstPageLoad(mq)
    \/ \E theme \in Strings : SwitchTheme(theme)
    \/ \E matches \in BOOLEAN : SystemThemeChange(matches)
    \/ NavConstruct
    \/ \E w \in PageWidths : DomResize("container", w)
    \/ ResizeCallback
    \/ InitialCheck

BothSpec == BothInit /\ [][BothNext]_vars

\* anchors and menu alone; a transition that has started ends, the user owes
\* nothing
ScrollOnlyInit ==
    ScrollInit /\ ThemeAtRest /\ NavAtRest /\ StartAtRest /\ FormAtRest

ScrollSpec == ScrollOnlyInit /\ [][ScrollNext]_vars /\ WF_vars(MenuHidden)

\* the listeners alone
StartOnlyInit ==
    StartInit /\ ThemeAtRest /\ NavAtRest /\ FormAtRest /\ ScrollAtRest

StartSpec == StartOnlyInit /\ [][StartNext]_vars

\* the contact form alone
FormOnlyInit ==
    FormInit /\ ThemeAtRest /\ NavAtRest /\ StartAtRest /\ ScrollAtRest

FormSpec == FormOnlyInit /\ [][FormNext]_vars

\* the applier alone, from any DOM state
ApplyOnlyInit ==
    ApplyInit /\ NavAtRest /\ StartAtRest /\ FormAtRest /\ ScrollAtRest

ApplyNext == ApplyCurrent

ApplySpec == ApplyOnlyInit /\ [][ApplyNext]_vars

(***************************************************************************)
(* Properties of the ThemeManager (checked under ThemeSpec).               *)
(***************************************************************************)

\* C1: for every variant v, switchTheme(v) followed by a page load (a fresh
\* ThemeManager running loadTheme on the same storage) yields currentTheme = v,
\* whatever the theme state before and whatever the environment signal.
RoundTripOfPersistedPreference ==
    (/\ prevThemeOp.name = "switchTheme"
     /\ prevThemeOp.arg \in ThemeKeys
     /\ themeOp.name = "load")
        => currentTheme = prevThemeOp.arg

\* C1 witness: high-contrast was chosen, then the page was loaded while the
\* environment reported dark
RoundTripReached ==
    /\ prevThemeOp = [name |-> "switchTheme", arg |-> "high-contrast"]
    /\ themeOp = [name |-> "load", arg |-> "dark"]
    /\ currentTheme = "high-contrast"

\* C2: once the user has selected a variant v through switchTheme(v), any later
\* sequence of environment-change notifications leaves currentTheme, the root
\* theme attribute and the persisted value equal to v.
ExplicitChoiceTakesPrecedence ==
    userChoice # Null =>
        /\ currentTheme = userChoice
        /\ rootAttr = userChoice
        /\ storage = userChoice

\* C2 witness: light was chosen and two notifications (dark last) followed
ExplicitChoiceSurvivedNotifications ==
    /\ userChoice = "light"
    /\ themeOp = [name |-> "systemChange", arg |-> "dark"]
    /\ prevThemeOp.name = "systemChange"
    /\ mediaQuery = "dark"

\* C3: switchTheme(x) for any string x that is not light, dark or
\* high-contrast is a silent no-op: currentTheme, the root theme attribute and
\* the persisted preference are unchanged and no storage write happens.
InvalidSwitchIsNoOp ==
    [][(themeOp'.name = "switchTheme" /\ themeOp'.arg \notin ThemeKeys)
          => /\ UNCHANGED <<currentTheme, rootAttr, storage>>
             /\ ~wroteStorage']_vars

\* C4: loadTheme() with no persisted preference yields dark when the
\* environment signal reports dark, light when it reports light, and light when
\* the environment signal API is unavailable.
LoadWithoutPreferenceFollowsSignal ==
    (themeOp.name = "load" /\ storage = Null) =>
        /\ themeOp.arg = "dark" => currentTheme = "dark"
        /\ themeOp.arg = "light" => currentTheme = "light"
        /\ themeOp.arg = "unavailable" => currentTheme = "light"

\* C4 witness: a load with empty storage under a dark signal
LoadWithoutPreferenceReached ==
    /\ themeOp = [name |-> "load", arg |-> "dark"]
    /\ storage = Null
    /\ currentTheme = "dark"

\* C5: loadTheme() treats a persisted value that is present but not a
\* recognized variant exactly as an absent one: the resulting currentTheme is
\* the one empty storage gives under the same signal (dark under a dark signal,
\* light otherwise).
LoadTreatsUnrecognizedAsAbsent ==
    (themeOp.name = "load" /\ storage # Null /\ storage \notin ThemeKeys) =>
        currentTheme = (IF themeOp.arg = "dark" THEN "dark" ELSE "light")

\* C6: an environment-change notification treats a persisted value that is
\* present but unrecognized as absent: it sets currentTheme to dark when isDark
\* and to light otherwise.
NotificationTreatsUnrecognizedAsAbsent ==
    [][(/\ storage # Null
        /\ storage \notin ThemeKeys
        /\ themeOp'.name = "systemChange")
          => currentTheme' = themeOp'.arg]_vars

\* C7: when no preference is persisted, an environment-change notification
\* behaves exactly as switchTheme(isDark ? dark : light): currentTheme and the
\* root theme attribute become that variant, it is persisted, and the switcher
\* UI (label, icon, active option) is updated.
NotificationWithoutPreferenceSwitches ==
    [][(storage = Null /\ themeOp'.name = "systemChange")
          => /\ currentTheme' = themeOp'.arg
             /\ rootAttr' = themeOp'.arg
             /\ storage' = themeOp'.arg
             /\ wroteStorage'
             /\ activeOptions' = {themeOp'.arg}
             /\ ariaLabel' = (IF themeOp'.arg = "dark" THEN "Dark" ELSE "Light")
             /\ iconClass' = (IF themeOp'.arg = "dark" THEN "bi-moon" ELSE "bi-sun")]_vars

\* C7 witness: a page loaded light with nothing stored received a dark
\* notification, which switched and persisted dark
NotificationSwitchedTheme ==
    /\ prevThemeOp = [name |-> "load", arg |-> "light"]
    /\ themeOp = [name |-> "systemChange", arg |-> "dark"]
    /\ wroteStorage
    /\ currentTheme = "dark"
    /\ rootAttr = "dark"
    /\ activeOptions = {"dark"}

\* C8: in every reachable state, whatever the initial storage contents and
\* whatever sequence of loads, switchTheme(x) with arbitrary strings x and
\* environment-change notifications, currentTheme is one of light, dark,
\* high-contrast.
CurrentThemeIsVariant == currentTheme \in ThemeKeys

(***************************************************************************)
(* Properties of the DynamicNavbarBreakpoint (checked under NavSpec).      *)
(***************************************************************************)

\* C9: after checkBreakpoint() completes with all required elements present,
\* the navbar carries the expanded layout class if and only if
\* brandWidth + navWidth + themeControlWidth + 2*gapWidth + 5 <= containerWidth
\* (equality counts as expanded); with 100, 300, 150 and gap 8 it is expanded
\* at container 600 and collapsed at container 560.
ExpandedIffWidthsFit ==
    navOp \in {"resizeCallback", "timer"} =>
        /\ navbarExpanded <=>
              (brandWidth + navWidth + themeCtlWidth + 2 * GapWidth(gapStyle) + 5
                  <= containerWidth)
        /\ (/\ brandWidth = 100 /\ navWidth = 300 /\ themeCtlWidth = 150
            /\ gapStyle = [kind |-> "px", px |-> 8])
              => /\ containerWidth = 600 => navbarExpanded
                 /\ containerWidth = 560 => ~navbarExpanded

\* C9 witness: a check that found the widths fitting exactly and left the
\* navbar expanded
ExactFitExpanded ==
    /\ navOp \in {"resizeCallback", "timer"}
    /\ brandWidth + navWidth + themeCtlWidth + 2 * GapWidth(gapStyle) + 5
          = containerWidth
    /\ navbarExpanded

\* C10: if the container, brand, nav-links or theme-control element is missing
\* at construction, no resize observer and no delayed check is registered, so
\* no resize notification or timer ever adds or removes the layout class.
MissingElementDisablesEngine ==
    [][(absent # {}) =>
          /\ observed' = {}
          /\ ~resizePending'
          /\ ~timerPending'
          /\ navbarExpanded' = navbarExpanded]_vars

\* C10 witness: the theme control is missing, the engine was constructed, and
\* the container has been resized since
ResizedWithMissingElement ==
    /\ absent = {"themeSelector"}
    /\ navConstructed
    /\ navOp = "domResize"
    /\ containerWidth = 600

\* C11: the breakpoint state is recomputed on every resize of the container
\* and of each measured child (brand, nav links, theme control), and once more
\* by a single delayed initial check after construction.  A resize is a change
\* of the element's rendered width (the hidden nav links of a collapsed navbar
\* have none); it must queue a recomputation.
EveryMeasuredResizeRechecks ==
    [][/\ (/\ navConstructed
           /\ absent = {}
           /\ navOp' = "domResize"
           /\ \/ containerWidth' # containerWidth
              \/ brandWidth' # brandWidth
              \/ themeCtlWidth' # themeCtlWidth
              \/ (navbarExpanded /\ navWidth' # navWidth))
             => resizePending'
       /\ (navOp' = "construct" /\ absent = {}) => timerPending'
       /\ (~timerPending /\ timerPending') => navOp' = "construct"
       /\ navOp' = "timer" => (timerPending /\ ~timerPending')]_vars

\* C12: checkBreakpoint() uses the gap read from the rendered layout whenever
\* it is a number (every g >= 0, 0 included) and the default of 8 only when the
\* gap cannot be read: after a check the navbar is expanded iff the widths fit
\* with that gap.
ReadableGapIsUsed ==
    navOp \in {"resizeCallback", "timer"} =>
        LET gap == IF gapStyle.kind = "px" THEN gapStyle.px ELSE 8
        IN  navbarExpanded <=>
              (brandWidth + navWidth + themeCtlWidth + 2 * gap + 5
                  <= containerWidth)

\* C17: in every run of checkBreakpoint() the navbar is put in the expanded
\* layout before any width is read, so the nav-links width used in the decision
\* is the one of the expanded layout, even when the navbar was collapsed when
\* the check started.
WidthsReadInExpandedLayout ==
    navOp \in {"resizeCallback", "timer"} => navRead = navWidth

\* C17 witness: a resize callback found the navbar collapsed (its class change
\* queued a new notification), read the full nav-links width and expanded it
ReadFullWidthFromCollapsed ==
    /\ navOp = "resizeCallback"
    /\ resizePending
    /\ navbarExpanded
    /\ navRead = 300

\* C18: checkBreakpoint() is history-independent and idempotent: whatever the
\* class was before, the class after a check is the decision for the current
\* natural widths (so a collapsed navbar re-expands at the first check once the
\* container is wide enough), and a check that directly follows a check, the
\* widths unchanged, leaves the class as it is (no oscillation).
CheckIsHistoryIndependent ==
    [][navOp' \in {"resizeCallback", "timer"} =>
          /\ navbarExpanded' <=>
                (brandWidth + navWidth + themeCtlWidth + 2 * GapWidth(gapStyle) + 5
                    <= containerWidth)
          /\ navOp \in {"resizeCallback", "timer"}
                => navbarExpanded' = navbarExpanded]_vars

\* C18 witness: with the example's widths and the container at 600, a resize
\* callback re-expanded a collapsed navbar
CollapsedNavbarReExpanded ==
    /\ navOp = "resizeCallback"
    /\ resizePending
    /\ navbarExpanded
    /\ brandWidth = 100 /\ navWidth = 300 /\ themeCtlWidth = 150
    /\ containerWidth = 600

(***************************************************************************)
(* Further properties of the ThemeManager.                                 *)
(***************************************************************************)

\* C15: applying the current theme (applyTheme(currentTheme) followed by
\* updateThemeUI()) is idempotent: a second application leaves the root theme
\* attribute, the code stylesheet link, the hero illustration source, the
\* switcher label and icon and the active flag of every option as the first
\* application left them.  Checked under ApplySpec.
ApplyCurrentIsIdempotent ==
    [][(themeOp.name = "applyCurrent" /\ themeOp'.name = "applyCurrent")
          => UNCHANGED <<rootAttr, codeHref, heroSrc, ariaLabel, iconClass,
                         activeOptions>>]_vars

\* C15 witness: dark was applied twice over a DOM that has both optional
\* elements
AppliedTwice ==
    /\ prevThemeOp = [name |-> "applyCurrent", arg |-> "dark"]
    /\ themeOp = [name |-> "applyCurrent", arg |-> "dark"]
    /\ rootAttr = "dark"
    /\ codeHref = CodeThemeHref("dark")
    /\ heroSrc = HeroSvgPath("dark")
    /\ activeOptions = {"dark"}

\* C16: when the environment signal API is unavailable, ThemeManager
\* initialization completes, currentTheme defaults to light when nothing valid
\* is persisted, no environment-change listener is registered, and explicit
\* switchTheme calls still work.  Checked under ThemeSpec.
UnavailableSignalIsHandled ==
    (mediaQuery = "unavailable" /\ themeOp.name # "none") =>
        /\ themeLoaded
        /\ ~listening
        /\ (themeOp.name = "load" /\ storage \notin ThemeKeys)
              => currentTheme = "light"
        /\ (themeOp.name = "switchTheme" /\ themeOp.arg \in ThemeKeys)
              => (currentTheme = themeOp.arg /\ storage = themeOp.arg)

(***************************************************************************)
(* Properties of the startup listeners (checked under StartSpec).          *)
(***************************************************************************)

\* a step of the main listener whose component can start: it does not throw,
\* its guarding element is on the page and what it is handed was constructed
Startable(st) ==
    /\ st.comp \notin throwing
    /\ st.el = "none" \/ st.el \in pageHas
    /\ Needs(st.comp) \subseteq initialized

\* C13: startup isolation: whichever components throw during initialization
\* and whichever guarding elements are missing, every other component of the
\* page is initialized once the listeners have run, and no error leaves the
\* main listener.
StartupIsolation ==
    /\ "main" \in listenersRun =>
          /\ \A i \in 1..Len(MainSteps) :
                Startable(MainSteps[i]) => MainSteps[i].comp \in initialized
          /\ "main" \notin uncaught
    /\ ("contact" \in listenersRun /\ "contactForm" \in pageHas) =>
          "ContactValidation" \in initialized

\* C13 witness: two navbar components threw, the scroll button is missing, and
\* the components around them are up
StartedAroundFailures ==
    /\ listenersRun = {"main", "contact"}
    /\ throwing = {"MobileMenuManager", "DynamicNavbarBreakpoint"}
    /\ pageHas = PageElements \ {"scrollToTopBtn"}
    /\ {"NavbarHeightUpdater", "PhoneInputManager", "ContactFormHandler",
        "ContactValidation"} \subseteq initialized

(***************************************************************************)
(* Properties of the contact form (checked under FormSpec).                *)
(***************************************************************************)

\* both handlers are through with submit event i
Finished(i) ==
    /\ i \in 1..nSubmits
    /\ dispatching # i
    /\ sub[i].a \in {"skipped", "success", "error", "thrown", "noclient"}
    /\ sub[i].b \in {"skipped", "done"}

\* submit event i passed a handler's validation
PassedValidation(i) == sub[i].a # "skipped" \/ sub[i].b \notin {"new", "skipped"}

\* C14: retryable state after submission: for every submission that passes
\* validation, whatever the remote outcome, the step that finishes the last of
\* its handlers leaves the submit button enabled with non-loading content, and
\* an error outcome has raised an error message.
RetryableAfterSubmission ==
    [][\A i \in 1..MaxSubmits :
          (~Finished(i) /\ Finished(i)' /\ PassedValidation(i)')
             => /\ ~btnDisabled'
                /\ btnHtml' \notin LoadingHtml
                /\ sub'[i].a \in {"error", "thrown", "noclient"}
                      => sub'[i].alert \in {"error", "unexpected"}]_vars

\* C14 witness: the remote call of the second submission threw after the
\* timer of handler B had fired, and the button is back
ThrownSubmissionFinished ==
    /\ nSubmits = 2
    /\ Finished(1) /\ Finished(2)
    /\ sub[2].a = "thrown" /\ sub[2].b = "done"
    /\ sub[2].alert = "unexpected"
    /\ ~btnDisabled
    /\ btnHtml = "hardcoded"

(***************************************************************************)
(* Properties of both components together (checked under BothSpec).        *)
(***************************************************************************)

\* C19: theme and breakpoint state are disjoint: under any interleaving of
\* their callbacks, a checkBreakpoint() run leaves currentTheme, the root theme
\* attribute and the persisted preference unchanged, and a step of loadTheme,
\* switchTheme or an environment-change notification leaves the navbar layout
\* class unchanged.
ThemeAndBreakpointDisjoint ==
    [][/\ (navOp' \in {"resizeCallback", "timer"} /\ navVars' # navVars)
            => UNCHANGED <<currentTheme, rootAttr, storage>>
       /\ (themeVars' # themeVars) => UNCHANGED navbarExpanded]_vars

\* C19 witness: high-contrast was chosen on the collapsed navbar, then the
\* container grew and the queued callback expanded the navbar again
InterleavedThemeAndBreakpoint ==
    /\ themeOp = [name |-> "switchTheme", arg |-> "high-contrast"]
    /\ prevThemeOp.name = "load"
    /\ currentTheme = "high-contrast"
    /\ navOp = "resizeCallback"
    /\ containerWidth = 600
    /\ navbarExpanded

(***************************************************************************)
(* Properties of anchor clicks (checked under ScrollSpec).                 *)
(***************************************************************************)

\* C20: every click on an internal anchor whose target exists eventually
\* scrolls to the target; a click made while the mobile menu was open scrolls
\* only in the step of the menu's hidden event; no click scrolls twice.
EveryAnchorClickScrolls ==
    /\ \A i \in 1..MaxClicks :
          (Len(clicks) >= i) ~> (Len(clicks) >= i /\ clicks[i].scrolled = 1)
    /\ [][\A i \in 1..Len(clicks) :
             (clicks[i].open /\ clicks'[i].scrolled # clicks[i].scrolled)
                => (menu = "hiding" /\ menu' = "closed")]_vars
    /\ [](\A i \in 1..Len(clicks) : clicks[i].scrolled <= 1)

(***************************************************************************)
(* Further properties, second part.                                        *)
(***************************************************************************)

\* C21: an environment-change notification that is acted on (nothing truthy
\* is stored) persists the derived variant; so when storage started empty and
\* switchTheme was never called, the first notification stores its variant and
\* every later notification changes neither currentTheme, nor the root
\* attribute, nor the stored value.
OnlyFirstNotificationActs ==
    [][/\ (themeOp'.name = "systemChange" /\ ~Truthy(storage)
              /\ themeVars' # themeVars)
            => (storage' = themeOp'.arg /\ currentTheme' = themeOp'.arg)
       /\ (notified = "yes" /\ themeOp'.name = "systemChange")
            => UNCHANGED <<currentTheme, rootAttr, storage>>]_vars

\* C21 witness: the page loaded light with nothing stored, a first notification
\* (dark) was acted on, and a second one (light) came and was ignored
LaterNotificationIgnored ==
    /\ notified = "yes"
    /\ prevThemeOp = [name |-> "systemChange", arg |-> "dark"]
    /\ themeOp = [name |-> "systemChange", arg |-> "light"]
    /\ mediaQuery = "light"
    /\ currentTheme = "dark"
    /\ storage = "dark"

\* C22: the contact form's success message is displayed for a submission only
\* if the remote handle_contact_form call was issued for that submission and
\* has returned without error.
SuccessMessageOnlyAfterRemoteSuccess ==
    \A i \in 1..nSubmits :
        sub[i].b = "done" => (sub[i].rpc /\ sub[i].a = "success")

\* the submit events whose remote call has been issued and has not come back
RemoteCallsInFlight == {i \in 1..nSubmits : sub[i].rpc /\ sub[i].a = "pending"}

\* C23: while a remote call issued by a submission is pending the submit button
\* is disabled, whatever the order of the reply and the 1.5 s timer of the
\* second handler; hence at most one remote call is in flight at a time.
RemoteCallKeepsButtonDisabled ==
    /\ RemoteCallsInFlight # {} => btnDisabled
    /\ Cardinality(RemoteCallsInFlight) <= 1

\* C24: at every submit event, the remote call is issued only if the field
\* values of that event satisfy the custom validation rules, and values that
\* satisfy the built-in constraints and the custom rules are not stopped by
\* validity flags an earlier submit event left on the fields.
RemoteCallFollowsCustomRules ==
    [][nSubmits' = nSubmits + 1 =>
          /\ sub'[nSubmits'].rpc => values'.custom
          /\ (values'.html /\ values'.custom) => sub'[nSubmits'].a # "skipped"]_vars

\* C25: once the ThemeManager is initialized, and after every completed
\* switchTheme or environment-change notification, the root theme attribute
\* equals currentTheme and exactly the theme options whose data-theme equals
\* currentTheme carry the active flag.
RootAndOptionsFollowCurrentTheme ==
    themeLoaded =>
        /\ rootAttr = currentTheme
        /\ activeOptions = {o \in OptionThemes : o = currentTheme}

\* C25 witness: dark was chosen after high-contrast, and only the dark option
\* is active
DarkChosenAfterHighContrast ==
    /\ prevThemeOp = [name |-> "switchTheme", arg |-> "high-contrast"]
    /\ themeOp = [name |-> "switchTheme", arg |-> "dark"]
    /\ rootAttr = "dark"
    /\ activeOptions = {"dark"}

====
